---- MODULE Spec2Model ----
(***************************************************************************)
(* Model of the bin hierarchy of inventory_mcp (tools/bins.py,             *)
(* tools/locations.py, tools/items.py) over a row store without            *)
(* constraints: every db.execute* call opens a fresh connection            *)
(* (db/connection.py), so the foreign_keys pragma of _init_connection is   *)
(* not in force when the tools write.                                      *)
(***************************************************************************)
EXTENDS Integers, Sequences, FiniteSets, TLC

\* ---------------------------------------------------------------- bounds
MaxBins == 3
MaxLocs == 1
MaxItems == 2
MaxDepth == 3
MaxHits == 65
MaxSwaps == 2
MaxCalls == 2
MaxServers == 2

\* Python None / SQL NULL.  Identifiers, names and descriptions are strings,
\* so that None, the empty string "" and a proper value stay three cases.
None == "None"

BinIds == {"b" \o ToString(i) : i \in 1..MaxBins}
LocIds == {"L" \o ToString(i) : i \in 1..MaxLocs}
ItemIds == {"i" \o ToString(i) : i \in 1..MaxItems}
BinNames == {"a"}
LocNames == {"G" \o ToString(i) : i \in 1..MaxLocs}
Descriptions == {"d"}

\* Python truthiness of an Optional[str]: None and "" are falsy.
Truthy(x) == x # None /\ x # ""

\* ------------------------------------------------------------------ state
VARIABLES
    locations,  \* table locations: id -> [name]
    bins,       \* table bins: id -> [name, location_id, parent_bin_id, description]
    items,      \* table items: id -> [bin_id, name, description, notes,
                \*                      category_id, quantity_value, embedding]
    ret,        \* what the last call returned: [op, error_code, value]
    pc,         \* position of the traversal in progress ("idle" when none)
    walk,       \* locals of the traversal in progress
    service,    \* embedding_service module globals and the embedding settings
    probe,      \* what the storage layer answers to the probes of a search
    served,    \* calls of the embedding service served so far: name -> count
    pending,    \* update_bin calls past their checks, not yet written: process -> [bin_id, row]
    jobs,       \* re-embedding worker threads: thread -> position and locals
    sysset      \* table system_settings and the global _regen_thread

\* The state of the embedding, search and settings code.
svc == <<service, probe, served, pending, jobs, sysset>>

\* The three tables of the tools.
core_tables == <<locations, bins, items>>

\* The state of the bins, locations and items tools.
core == <<locations, bins, items, ret, pc, walk>>

vars == <<locations, bins, items, ret, pc, walk, service, probe, served, pending, jobs, sysset>>

\* -------------------------------------------------- helpers of tools/bins.py

\* Mutant: the pass does not move current_id to the parent it read.
IsDescendantIterStale(db, potential_ancestor_id, current_id, visited) ==
    IF ~Truthy(current_id) \/ current_id \in visited
    THEN [done |-> TRUE, value |-> FALSE, current_id |-> current_id,
          visited |-> visited, lookups |-> 0]
    ELSE IF current_id = potential_ancestor_id
    THEN [done |-> TRUE, value |-> TRUE, current_id |-> current_id,
          visited |-> visited \cup {current_id}, lookups |-> 0]
    ELSE [done |-> current_id \notin DOMAIN db, value |-> FALSE,
          current_id |-> current_id,
          visited |-> visited \cup {current_id}, lookups |-> 1]

\* One pass through the while loop of _is_descendant: the outcome of the
\* pass, and how many rows it read.
IsDescendantIter(db, potential_ancestor_id, current_id, visited) ==
    IF ~Truthy(current_id) \/ current_id \in visited
    THEN [done |-> TRUE, value |-> FALSE, current_id |-> current_id,
          visited |-> visited, lookups |-> 0]
    ELSE IF current_id = potential_ancestor_id
    THEN [done |-> TRUE, value |-> TRUE, current_id |-> current_id,
          visited |-> visited \cup {current_id}, lookups |-> 0]
    ELSE IF current_id \notin DOMAIN db
    THEN [done |-> TRUE, value |-> FALSE, current_id |-> current_id,
          visited |-> visited \cup {current_id}, lookups |-> 1]
    ELSE [done |-> FALSE, value |-> FALSE,
          current_id |-> db[current_id].parent_bin_id,
          visited |-> visited \cup {current_id}, lookups |-> 1]

RECURSIVE IsDescendantLoop(_, _, _, _)
IsDescendantLoop(db, potential_ancestor_id, current_id, visited) ==
    LET it == IsDescendantIter(db, potential_ancestor_id, current_id, visited)
    IN  IF it.done THEN it.value
        ELSE IsDescendantLoop(db, potential_ancestor_id, it.current_id, it.visited)

\* Mutant: no walk up the chain at all, nothing is ever a descendant.
IsDescendantNever(db, potential_ancestor_id, potential_descendant_id) == FALSE

\* Mutant: only the bin itself and its immediate parent are compared.
IsDescendantParentOnly(db, potential_ancestor_id, potential_descendant_id) ==
    \/ potential_descendant_id = potential_ancestor_id
    \/ /\ potential_descendant_id \in DOMAIN db
       /\ db[potential_descendant_id].parent_bin_id = potential_ancestor_id

_is_descendant(db, potential_ancestor_id, potential_descendant_id) ==
    IsDescendantLoop(db, potential_ancestor_id, potential_descendant_id, {})

\* Mutant: no visited set, the pass never stops on a bin seen before.
AncestorsIterNoVisited(db, current_id, visited, ancestors) ==
    IF ~Truthy(current_id)
    THEN [done |-> TRUE, current_id |-> current_id, visited |-> visited,
          ancestors |-> ancestors, lookups |-> 0]
    ELSE IF current_id \notin DOMAIN db
    THEN [done |-> TRUE, current_id |-> current_id, visited |-> visited,
          ancestors |-> ancestors, lookups |-> 1]
    ELSE [done |-> FALSE, current_id |-> db[current_id].parent_bin_id,
          visited |-> visited,
          ancestors |-> <<current_id>> \o ancestors, lookups |-> 1]

\* One pass through the while loop of _get_bin_ancestors;
\* ancestors.insert(0, ...) prepends.  The Bin objects are represented by
\* their ids (their fields are the fields of the row read).
AncestorsIter(db, current_id, visited, ancestors) ==
    IF ~Truthy(current_id) \/ current_id \in visited
    THEN [done |-> TRUE, current_id |-> current_id, visited |-> visited,
          ancestors |-> ancestors, lookups |-> 0]
    ELSE IF current_id \notin DOMAIN db
    THEN [done |-> TRUE, current_id |-> current_id,
          visited |-> visited \cup {current_id},
          ancestors |-> ancestors, lookups |-> 1]
    ELSE [done |-> FALSE, current_id |-> db[current_id].parent_bin_id,
          visited |-> visited \cup {current_id},
          ancestors |-> <<current_id>> \o ancestors, lookups |-> 1]

RECURSIVE AncestorsLoop(_, _, _, _)
AncestorsLoop(db, current_id, visited, ancestors) ==
    LET it == AncestorsIter(db, current_id, visited, ancestors)
    IN  IF it.done THEN it.ancestors
        ELSE AncestorsLoop(db, it.current_id, it.visited, it.ancestors)

\* The first SELECT of _get_bin_ancestors: TRUE when the function returns
\* the empty list at once.
NoParentRow(db, bin_id) ==
    bin_id \notin DOMAIN db \/ ~Truthy(db[bin_id].parent_bin_id)

_get_bin_ancestors(db, bin_id) ==
    IF NoParentRow(db, bin_id) THEN <<>>
    ELSE AncestorsLoop(db, db[bin_id].parent_bin_id, {}, <<>>)

\* "/".join(path_parts)
RECURSIVE Join(_)
Join(path_parts) ==
    IF Len(path_parts) = 0 THEN ""
    ELSE IF Len(path_parts) = 1 THEN path_parts[1]
    ELSE path_parts[1] \o "/" \o Join(Tail(path_parts))

\* The SELECT of _build_bin_path is an inner join of bins and locations: it
\* yields no row when the bin or the bin's location is missing.
PathRowMissing(db, locs, bin_id) ==
    bin_id \notin DOMAIN db \/ db[bin_id].location_id \notin DOMAIN locs

\* The path assembled from the row and the ancestors found.
PathOf(db, locs, bin_id, ancestors, include_location) ==
    LET path_parts == [i \in 1..Len(ancestors) |-> db[ancestors[i]].name]
                          \o <<db[bin_id].name>>
    IN  Join(IF include_location
             THEN <<locs[db[bin_id].location_id].name>> \o path_parts
             ELSE path_parts)

_build_bin_path(db, locs, bin_id, include_location) ==
    IF PathRowMissing(db, locs, bin_id) THEN ""
    ELSE PathOf(db, locs, bin_id, _get_bin_ancestors(db, bin_id), include_location)

\* ------------------------------------------------------------ store helpers
Range(f) == {f[x] : x \in DOMAIN f}
Remove(f, k) == [x \in DOMAIN f \ {k} |-> f[x]]

\* A fresh uuid4: any identifier not in use; the least one is taken, the
\* identifiers being interchangeable.
NewId(prefix, max, used) ==
    LET free == {i \in 1..max : prefix \o ToString(i) \notin used}
    IN  prefix \o ToString(CHOOSE i \in free : \A j \in free : i <= j)

Returned(op, error_code, value) ==
    [op |-> op, error_code |-> error_code, value |-> value]

\* SELECT COUNT(*) FROM bins WHERE parent_bin_id = ?
ChildCount(db, bin_id) == Cardinality({b \in DOMAIN db : db[b].parent_bin_id = bin_id})

\* SELECT COUNT(*) FROM items WHERE bin_id = ?
ItemCount(its, bin_id) == Cardinality({i \in DOMAIN its : its[i].bin_id = bin_id})

\* SELECT id FROM bins WHERE name = ? AND location_id = ? AND parent_bin_id = ?
\* AND id != ?  (parent_bin_id IS NULL when the parent is falsy; a stored ''
\* is not NULL and matches neither form).
SiblingNamed(db, name, location_id, parent_bin_id, except) ==
    \E b \in DOMAIN db \ {except} :
        /\ db[b].name = name
        /\ db[b].location_id = location_id
        /\ db[b].parent_bin_id = IF Truthy(parent_bin_id) THEN parent_bin_id ELSE None

\* ----------------------------------------------------- tools/locations.py
create_location(name) ==
    /\ pc = "idle"
    /\ Cardinality(DOMAIN locations) < MaxLocs
    /\ IF \E l \in DOMAIN locations : locations[l].name = name
       THEN /\ ret' = Returned("create_location", "ALREADY_EXISTS", None)
            /\ UNCHANGED locations
       ELSE /\ locations' = locations @@
                   (NewId("L", MaxLocs, DOMAIN locations) :> [name |-> name])
            /\ ret' = Returned("create_location", "OK", None)
    /\ UNCHANGED <<svc, bins, items, pc, walk>>

delete_location(location_id) ==
    /\ pc = "idle"
    /\ IF location_id \notin DOMAIN locations
       THEN /\ ret' = Returned("delete_location", "NOT_FOUND", None)
            /\ UNCHANGED locations
       ELSE IF \E b \in DOMAIN bins : bins[b].location_id = location_id
       THEN /\ ret' = Returned("delete_location", "HAS_DEPENDENCIES", None)
            /\ UNCHANGED locations
       ELSE /\ locations' = Remove(locations, location_id)
            /\ ret' = Returned("delete_location", "OK", None)
    /\ UNCHANGED <<svc, bins, items, pc, walk>>

\* ---------------------------------------------------------- tools/bins.py

\* The early returns of create_bin, in order; "OK" when the row is inserted.
CreateBinOutcome(db, locs, name, location_id, parent_bin_id) ==
    IF location_id \notin DOMAIN locs THEN "NOT_FOUND"
    ELSE IF Truthy(parent_bin_id) /\ parent_bin_id \notin DOMAIN db THEN "NOT_FOUND"
    ELSE IF Truthy(parent_bin_id) /\ db[parent_bin_id].location_id # location_id
         THEN "INVALID_INPUT"
    ELSE IF SiblingNamed(db, name, location_id, parent_bin_id, None)
         THEN "ALREADY_EXISTS"
    ELSE "OK"

create_bin(name, location_id, parent_bin_id, description) ==
    LET outcome == CreateBinOutcome(bins, locations, name, location_id, parent_bin_id)
    IN  /\ pc = "idle"
        /\ Cardinality(DOMAIN bins) < MaxBins
        /\ IF outcome = "OK"
           THEN bins' = bins @@ (NewId("b", MaxBins, DOMAIN bins) :>
                           [name |-> name, location_id |-> location_id,
                            parent_bin_id |-> parent_bin_id,
                            description |-> description])
           ELSE UNCHANGED bins
        /\ ret' = Returned("create_bin", outcome, None)
        /\ UNCHANGED <<svc, locations, items, pc, walk>>

\* parent_bin_id: None means no change, "" means move to root.
NewParent(row, parent_bin_id) ==
    IF parent_bin_id = None THEN row.parent_bin_id
    ELSE IF parent_bin_id = "" THEN None
    ELSE parent_bin_id

\* The early returns of update_bin, in order; "OK" when the row is written.
UpdateBinOutcome(db, locs, bin_id, name, location_id, parent_bin_id) ==
    IF bin_id \notin DOMAIN db THEN "NOT_FOUND"
    ELSE
    LET row == db[bin_id]
        new_name == IF name # None THEN name ELSE row.name
        new_location_id == IF location_id # None THEN location_id ELSE row.location_id
        new_parent_bin_id == NewParent(row, parent_bin_id)
        location_changed == Truthy(location_id) /\ location_id # row.location_id
    IN  IF location_changed /\ location_id \notin DOMAIN locs THEN "NOT_FOUND"
        ELSE IF /\ location_changed
                /\ Truthy(new_parent_bin_id)
                /\ new_parent_bin_id \in DOMAIN db
                /\ db[new_parent_bin_id].location_id # new_location_id
             THEN "INVALID_INPUT"
        ELSE IF parent_bin_id # None /\ parent_bin_id # ""
                /\ new_parent_bin_id \notin DOMAIN db
             THEN "NOT_FOUND"
        ELSE IF parent_bin_id # None /\ parent_bin_id # ""
                /\ db[new_parent_bin_id].location_id # new_location_id
             THEN "INVALID_INPUT"
        ELSE IF parent_bin_id # None /\ parent_bin_id # ""
                /\ new_parent_bin_id = bin_id
             THEN "CIRCULAR_REFERENCE"
        ELSE IF parent_bin_id # None /\ parent_bin_id # ""
                /\ _is_descendant(db, bin_id, new_parent_bin_id)
             THEN "CIRCULAR_REFERENCE"
        ELSE IF /\ (Truthy(name) \/ Truthy(location_id) \/ parent_bin_id # None)
                /\ SiblingNamed(db, new_name, new_location_id, new_parent_bin_id, bin_id)
             THEN "ALREADY_EXISTS"
        ELSE "OK"

update_bin(bin_id, name, location_id, parent_bin_id, description) ==
    LET outcome == UpdateBinOutcome(bins, locations, bin_id, name, location_id,
                                    parent_bin_id)
    IN  /\ pc = "idle"
        /\ ret' = Returned("update_bin", outcome, None)
        /\ IF outcome = "OK"
           THEN bins' = [bins EXCEPT ![bin_id] =
                   [name |-> IF name # None THEN name ELSE @.name,
                    location_id |-> IF location_id # None THEN location_id
                                    ELSE @.location_id,
                    parent_bin_id |-> NewParent(@, parent_bin_id),
                    description |-> IF description # None THEN description
                                    ELSE @.description]]
           ELSE UNCHANGED bins
        /\ UNCHANGED <<svc, locations, items, pc, walk>>

\* Mutant: the child bins are not counted before the delete.
DeleteBinOutcomeNoChildCheck(db, its, bin_id) ==
    IF bin_id \notin DOMAIN db THEN "NOT_FOUND"
    ELSE IF Cardinality({i \in DOMAIN its : its[i].bin_id = bin_id}) > 0
         THEN "HAS_DEPENDENCIES"
    ELSE "OK"

\* The early returns of delete_bin, in order; "OK" when the row is deleted.
DeleteBinOutcome(db, its, bin_id) ==
    IF bin_id \notin DOMAIN db THEN "NOT_FOUND"
    ELSE IF ChildCount(db, bin_id) > 0 THEN "HAS_CHILDREN"
    ELSE IF ItemCount(its, bin_id) > 0 THEN "HAS_DEPENDENCIES"
    ELSE "OK"

delete_bin(bin_id) ==
    LET outcome == DeleteBinOutcome(bins, items, bin_id)
    IN  /\ pc = "idle"
        /\ IF outcome = "OK" THEN bins' = Remove(bins, bin_id) ELSE UNCHANGED bins
        /\ ret' = Returned("delete_bin", outcome, None)
        /\ UNCHANGED <<svc, locations, items, pc, walk>>

\* ------------------------------------------------ get_bin_tree (bins.py)

\* ORDER BY name: names compare by their place in NameOrder; rows of equal
\* name come in the order of their ids.
NameOrder == <<"", "a", "b">>
NameRank(name) == CHOOSE i \in 1..Len(NameOrder) : NameOrder[i] = name
IdRank(bin_id) == CHOOSE i \in 1..MaxBins : "b" \o ToString(i) = bin_id
Before(db, x, y) ==
    \/ NameRank(db[x].name) < NameRank(db[y].name)
    \/ NameRank(db[x].name) = NameRank(db[y].name) /\ IdRank(x) <= IdRank(y)

RECURSIVE OrderByName(_, _)
OrderByName(db, ids) ==
    IF ids = {} THEN <<>>
    ELSE LET first == CHOOSE x \in ids : \A y \in ids : Before(db, x, y)
         IN  <<first>> \o OrderByName(db, ids \ {first})

RECURSIVE BuildNodes(_, _, _, _, _)

\* Mutant: the depth test is off by one (depth > max_depth).
BuildNodeOffByOne(db, its, bin_id, depth, max_depth) ==
    IF depth > max_depth THEN <<>>
    ELSE LET children_rows ==
                 OrderByName(db, {c \in DOMAIN db : db[c].parent_bin_id = bin_id})
             children == BuildNodes(db, its, children_rows, depth + 1, max_depth)
         IN  <<[id |-> bin_id,
                name |-> db[bin_id].name,
                description |-> db[bin_id].description,
                parent_bin_id |-> db[bin_id].parent_bin_id,
                item_count |-> Cardinality({i \in DOMAIN its : its[i].bin_id = bin_id}),
                child_count |-> Len(children),
                children |-> children]>>

\* build_node: None is the empty sequence, a node a sequence of one record.
build_node(db, its, bin_id, depth, max_depth) ==
    IF depth >= max_depth THEN <<>>
    ELSE LET children_rows ==
                 OrderByName(db, {c \in DOMAIN db : db[c].parent_bin_id = bin_id})
             children == BuildNodes(db, its, children_rows, depth + 1, max_depth)
         IN  <<[id |-> bin_id,
                name |-> db[bin_id].name,
                description |-> db[bin_id].description,
                parent_bin_id |-> db[bin_id].parent_bin_id,
                item_count |-> Cardinality({i \in DOMAIN its : its[i].bin_id = bin_id}),
                child_count |-> Len(children),
                children |-> children]>>

\* The for loops over rows that append every node built.
BuildNodes(db, its, rows, depth, max_depth) ==
    IF rows = <<>> THEN <<>>
    ELSE build_node(db, its, Head(rows), depth, max_depth)
             \o BuildNodes(db, its, Tail(rows), depth, max_depth)

get_bin_tree(location_id, root_bin_id, max_depth) ==
    /\ pc = "idle"
    /\ IF Truthy(root_bin_id)
       THEN IF root_bin_id \notin DOMAIN bins
            THEN ret' = Returned("get_bin_tree", "NOT_FOUND",
                                 [root_bin_id |-> root_bin_id,
                                  max_depth |-> max_depth, bins |-> <<>>])
            ELSE ret' = Returned("get_bin_tree", "OK",
                                 [root_bin_id |-> root_bin_id,
                                  max_depth |-> max_depth,
                                  bins |-> build_node(bins, items, root_bin_id, 0,
                                                      max_depth)])
       ELSE LET root_rows == OrderByName(bins,
                    {b \in DOMAIN bins :
                        /\ bins[b].parent_bin_id = None
                        /\ Truthy(location_id) => bins[b].location_id = location_id})
            IN  ret' = Returned("get_bin_tree", "OK",
                                [root_bin_id |-> root_bin_id,
                                 max_depth |-> max_depth,
                                 bins |-> BuildNodes(bins, items, root_rows, 0,
                                                     max_depth)])
    /\ UNCHANGED <<svc, locations, bins, items, pc, walk>>

\* --------------------------------- the traversals of bins.py, pass by pass

\* No traversal runs more passes than this in the model.
WalkCap == MaxBins + 4

Walk(fn, bin_id, other, current_id, visited, ancestors, lookups) ==
    [fn |-> fn, bin_id |-> bin_id, other |-> other, current_id |-> current_id,
     visited |-> visited, ancestors |-> ancestors, lookups |-> lookups]

NoWalk == Walk(None, None, None, None, {}, <<>>, 0)

\* _is_descendant is entered.
is_descendant_call(potential_ancestor_id, potential_descendant_id) ==
    /\ pc = "idle"
    /\ pc' = "is_descendant"
    /\ walk' = Walk("_is_descendant", potential_descendant_id,
                    potential_ancestor_id, potential_descendant_id, {}, <<>>, 0)
    /\ UNCHANGED <<svc, locations, bins, items, ret>>

\* One pass of its loop, or its return.
is_descendant_pass ==
    /\ pc = "is_descendant"
    /\ walk.lookups < WalkCap
    /\ LET it == IsDescendantIter(bins, walk.other, walk.current_id, walk.visited)
       IN  /\ walk' = [walk EXCEPT !.current_id = it.current_id,
                                   !.visited = it.visited,
                                   !.lookups = @ + it.lookups]
           /\ IF it.done
              THEN /\ pc' = "idle"
                   /\ ret' = Returned("_is_descendant", "OK",
                                      [potential_ancestor_id |-> walk.other,
                                       potential_descendant_id |-> walk.bin_id,
                                       result |-> it.value])
              ELSE UNCHANGED <<pc, ret>>
    /\ UNCHANGED <<svc, locations, bins, items>>

\* _get_bin_ancestors is entered (other = None), or _build_bin_path is
\* entered (other = include_location) and runs its SELECT.
ancestors_call(bin_id) ==
    /\ pc = "idle"
    /\ pc' = "ancestors_first"
    /\ walk' = Walk("_get_bin_ancestors", bin_id, None, bin_id, {}, <<>>, 0)
    /\ UNCHANGED <<svc, locations, bins, items, ret>>

build_bin_path_call(bin_id, include_location) ==
    /\ pc = "idle"
    /\ IF PathRowMissing(bins, locations, bin_id)
       THEN /\ ret' = Returned("_build_bin_path", "OK",
                               [bin_id |-> bin_id,
                                include_location |-> include_location,
                                result |-> ""])
            /\ walk' = Walk("_build_bin_path", bin_id, include_location, bin_id,
                            {}, <<>>, 1)
            /\ UNCHANGED pc
       ELSE /\ pc' = "ancestors_first"
            /\ walk' = Walk("_build_bin_path", bin_id, include_location, bin_id,
                            {}, <<>>, 1)
            /\ UNCHANGED ret
    /\ UNCHANGED <<svc, locations, bins, items>>

\* What the traversal in progress returns once its ancestors are known.
AncestorsReturn(ancestors) ==
    IF walk.fn = "_get_bin_ancestors"
    THEN Returned("_get_bin_ancestors", "OK",
                  [bin_id |-> walk.bin_id, result |-> ancestors])
    ELSE Returned("_build_bin_path", "OK",
                  [bin_id |-> walk.bin_id, include_location |-> walk.other,
                   result |-> PathOf(bins, locations, walk.bin_id, ancestors,
                                     walk.other)])

\* The SELECT of the bin's own parent_bin_id.
ancestors_first ==
    /\ pc = "ancestors_first"
    /\ IF NoParentRow(bins, walk.bin_id)
       THEN /\ pc' = "idle"
            /\ walk' = [walk EXCEPT !.lookups = @ + 1]
            /\ ret' = AncestorsReturn(<<>>)
       ELSE /\ pc' = "ancestors"
            /\ walk' = [walk EXCEPT !.current_id = bins[walk.bin_id].parent_bin_id,
                                    !.lookups = @ + 1]
            /\ UNCHANGED ret
    /\ UNCHANGED <<svc, locations, bins, items>>

\* One pass of the loop of _get_bin_ancestors, or its return.
ancestors_pass ==
    /\ pc = "ancestors"
    /\ walk.lookups < WalkCap
    /\ LET it == AncestorsIter(bins, walk.current_id, walk.visited, walk.ancestors)
       IN  /\ walk' = [walk EXCEPT !.current_id = it.current_id,
                                   !.visited = it.visited,
                                   !.ancestors = it.ancestors,
                                   !.lookups = @ + it.lookups]
           /\ IF it.done
              THEN /\ pc' = "idle"
                   /\ ret' = AncestorsReturn(it.ancestors)
              ELSE UNCHANGED <<pc, ret>>
    /\ UNCHANGED <<svc, locations, bins, items>>

\* --------------------------------------- services/embedding_service.py

\* The models of EMBEDDING_MODELS and their "dimensions".
EMBEDDING_MODELS == {"all-MiniLM-L6-v2", "all-mpnet-base-v2"}
Dimensions(model) == IF model = "all-MiniLM-L6-v2" THEN 384 ELSE 768

\* The module globals _model and _model_load_attempted, the settings the
\* module reads, whether SentenceTransformer can be constructed in this
\* process (installed), and two counters of what _load_model did: the loads
\* it attempted and the models it constructed.
ServiceStart(embedding_enabled, installed) ==
    [_model |-> None, _model_load_attempted |-> FALSE,
     embedding_model |-> "all-MiniLM-L6-v2",
     embedding_enabled |-> embedding_enabled, installed |-> installed,
     attempts |-> 0, constructed |-> 0]

\* The part of _load_model after the flag is set: the state it leaves.
LoadAttempt(sv) ==
    IF ~sv.embedding_enabled THEN sv
    ELSE IF sv.installed
    THEN [sv EXCEPT !._model = sv.embedding_model,
                    !.attempts = @ + 1, !.constructed = @ + 1]
    ELSE [sv EXCEPT !.attempts = @ + 1]

\* Mutant: the flag is not consulted, every call loads again.
LoadModelAlways(sv) == LoadAttempt([sv EXCEPT !._model_load_attempted = TRUE])

\* _load_model run without interruption: the state it leaves; the value it
\* returns is the _model of that state.
LoadModel(sv) ==
    IF sv._model_load_attempted THEN sv
    ELSE LoadAttempt([sv EXCEPT !._model_load_attempted = TRUE])

is_available(sv) == LoadModel(sv)._model # None

\* build_item_text: the fields that are present, joined by single spaces.
build_item_text(name, description, notes) ==
    name \o (IF Truthy(description) THEN " " \o description ELSE "")
         \o (IF Truthy(notes) THEN " " \o notes ELSE "")

\* What model.encode and embedding_to_bytes give for a text: a vector of the
\* model's dimension, determined by the model and the text.
Encode(model, text) == [model |-> model, text |-> text]

\* A NULL embedding column, and the None generate_embedding returns.
NoEmbedding == Encode(None, None)

\* generate_embedding on the state LoadModel leaves: the bytes, or None.
generate_embedding(sv, text) ==
    IF LoadModel(sv)._model = None THEN NoEmbedding
    ELSE Encode(LoadModel(sv)._model, text)

\* ------------------------------------------------------- tools/search.py
\* Scores are whole numbers: a similarity s stands for s/1000, an FTS score
\* f for f/1000, a weight w for w/10, a match_score m for m/100000.

\* The similarity _vector_search keeps (0.3), the similarity an item without
\* lexical match needs (0.4), the length of the returned list, and the two
\* weights of the settings.
SoftThreshold == 300
VectorOnlyThreshold == 400
ResultCap == 50
FtsWeight == 5
VectorWeight == 5

\* query.split(): the maximal runs of characters other than " "; a query is
\* a sequence of characters.
RECURSIVE SplitFrom(_, _, _)
SplitFrom(query, i, term) ==
    IF i > Len(query) THEN (IF term = "" THEN <<>> ELSE <<term>>)
    ELSE IF query[i] = " "
         THEN (IF term = "" THEN <<>> ELSE <<term>>) \o SplitFrom(query, i + 1, "")
         ELSE SplitFrom(query, i + 1, term \o query[i])

Split(query) == SplitFrom(query, 1, "")

\* " ".join(f"{term}*" for term in query.split())
RECURSIVE PrefixTerms(_)
PrefixTerms(terms) ==
    IF terms = <<>> THEN ""
    ELSE IF Len(terms) = 1 THEN terms[1] \o "*"
    ELSE terms[1] \o "* " \o PrefixTerms(Tail(terms))

FtsQuery(query) == PrefixTerms(Split(query))

\* MATCH with an empty pattern: the index either raises or matches nothing
\* (the schema that says which is not among the sources).
MatchRaises(pr) == FtsQuery(pr.query) = "" /\ pr.empty_match = "error"

\* abs(row["fts_score"]) if row["fts_score"] else 1.0, a rank r being r/100.
FtsScore(rank) == IF rank = 0 THEN 1000 ELSE IF rank < 0 THEN -rank * 10 ELSE rank * 10

\* The same for an alias row, times 0.9.
AliasScore(rank) == IF rank = 0 THEN 900 ELSE IF rank < 0 THEN -rank * 9 ELSE rank * 9

\* min(1.0, fts_score / 10.0), in 1/10000.
Normalized(fts_score) == IF fts_score > 10000 THEN 10000 ELSE fts_score

\* The indices of the probe rows _fts_search returns; an empty pattern that
\* does not raise matches nothing.
FtsHits(pr) ==
    IF FtsQuery(pr.query) = "" THEN {}
    ELSE {j \in 1..Len(pr.rows) : pr.rows[j].fts # <<>>}

\* The indices _alias_search returns: alias rows whose item _fts_search did
\* not return.
AliasHits(pr) ==
    IF FtsQuery(pr.query) = "" THEN {}
    ELSE {j \in 1..Len(pr.rows) : pr.rows[j].alias # <<>>} \ FtsHits(pr)

\* Mutant: the model is not asked for, every stored embedding is compared.
VectorHitsUnconditional(pr, available) ==
    {j \in 1..Len(pr.rows) :
        pr.rows[j].sim # <<>> /\ pr.rows[j].sim[1] >= SoftThreshold}

\* The indices _vector_search returns: none when the model is unavailable,
\* else the rows with an embedding whose similarity is at least 0.3.
VectorHits(pr, available) ==
    IF ~available THEN {}
    ELSE {j \in 1..Len(pr.rows) :
            pr.rows[j].sim # <<>> /\ pr.rows[j].sim[1] >= SoftThreshold}

\* Mutant: the similarity of a row counts whether _vector_search kept it or
\* not.
VectorScoreUnfiltered(pr, hits, j) ==
    IF pr.rows[j].sim # <<>> THEN pr.rows[j].sim[1] ELSE 0

VectorScore(pr, hits, j) == IF j \in hits THEN pr.rows[j].sim[1] ELSE 0

\* Mutant: an item found only by _vector_search is kept whatever its
\* similarity.
VectorOnlyKeptAlways(pr, hits, j) == TRUE

\* if vector_score >= 0.4, for an item only _vector_search found.
VectorOnlyKept(pr, hits, j) == pr.rows[j].sim[1] >= VectorOnlyThreshold

\* The row numbers 1..n in the order the storage layer answers.
Indices(n) == [j \in 1..n |-> j]

\* combined_scores in insertion order: the FTS rows, the alias rows, then the
\* rows only _vector_search found; rows come in the order of the probe.
\* match_score is in 1/100000: normalized * weight + similarity * weight.
CombinedFrom(pr, hits) ==
    LET fts == FtsHits(pr)
        alias == AliasHits(pr)
        rows == Indices(Len(pr.rows))
        ftsPass == SelectSeq(rows, LAMBDA j : j \in fts)
        aliasPass == SelectSeq(rows, LAMBDA j : j \in alias)
        vectorPass == SelectSeq(rows, LAMBDA j :
                          /\ j \in hits \ (fts \cup alias)
                          /\ VectorOnlyKept(pr, hits, j))
        order == ftsPass \o aliasPass \o vectorPass
    IN  [k \in 1..Len(order) |->
            LET j == order[k]
                v == VectorScore(pr, hits, j) * 10 * VectorWeight
            IN  [id |-> pr.rows[j].id, row |-> j,
                 score |-> IF j \in fts
                           THEN Normalized(FtsScore(pr.rows[j].fts[1])) * FtsWeight + v
                           ELSE IF j \in alias
                           THEN Normalized(AliasScore(pr.rows[j].alias[1])) * FtsWeight + v
                           ELSE v]]

\* results.sort(key=match_score, reverse=True): a stable sort, so entries of
\* equal score keep their order.
SortByScore(seq) ==
    LET entries == seq \o <<>>
        order == SortSeq(Indices(Len(entries)), LAMBDA a, b :
                     \/ entries[a].score > entries[b].score
                     \/ (entries[a].score = entries[b].score /\ a < b))
    IN  [k \in 1..Len(entries) |-> entries[order[k]]]

\* Mutant: the list is cut before it is sorted.
CappedUnsorted(seq) ==
    SortByScore(SubSeq(seq, 1, IF Len(seq) < ResultCap THEN Len(seq) ELSE ResultCap))

\* The sort and results[:50].
Capped(seq) ==
    LET sorted == SortByScore(seq)
    IN  SubSeq(sorted, 1, IF Len(sorted) < ResultCap THEN Len(sorted) ELSE ResultCap)

\* search_items without filters (a filter only narrows what the probes
\* answer). reads counts the lexical probes, alias probes and embedding
\* fetches sent to the storage layer.
search_items ==
    /\ pc = "idle"
    /\ IF MatchRaises(probe)
       THEN /\ ret' = Returned("search_items", "RAISED",
                               [reads |-> <<1, 0, 0>>, results |-> <<>>])
            /\ UNCHANGED service
       ELSE LET available == is_available(service)
                hits == VectorHits(probe, available)
                top == Capped(CombinedFrom(probe, hits))
            IN  /\ ret' = Returned("search_items", "OK",
                        [reads |-> <<1, 1, IF available THEN 1 ELSE 0>>,
                         results |->
                           [k \in 1..Len(top) |->
                              [id |-> top[k].id,
                               match_score |-> top[k].score,
                               bin_path |-> _build_bin_path(bins, locations,
                                              probe.rows[top[k].row].bin_id, TRUE)]]])
                /\ service' = LoadModel(service)
    /\ UNCHANGED <<locations, bins, items, pc, walk, probe, pending, served, jobs, sysset>>

\* -------------------------------------------------------- tools/items.py
\* The categories table, which no modelled call changes.
CategoryIds == {"c1"}

\* A quantity is <<>> (None, NULL) or <<n>>.
NoQuantity == <<>>

\* A row of items as INSERT writes it: the embedding column is not listed in
\* the statement and is NULL. The activity log the calls append to is left
\* out: nothing modelled reads it.
ItemRow(name, bin_id, description, notes, category_id, quantity_value) ==
    [bin_id |-> bin_id, name |-> name, description |-> description,
     notes |-> notes, category_id |-> category_id,
     quantity_value |-> quantity_value, embedding |-> NoEmbedding]

\* add_item with quantity_type "exact" and source "manual".
add_item(name, bin_id, description, notes, category_id, quantity_value) ==
    /\ pc = "idle"
    /\ Cardinality(DOMAIN items) < MaxItems
    /\ IF bin_id \notin DOMAIN bins
       THEN /\ ret' = Returned("add_item", "NOT_FOUND", None)
            /\ UNCHANGED items
       ELSE IF Truthy(category_id) /\ category_id \notin CategoryIds
       THEN /\ ret' = Returned("add_item", "NOT_FOUND", None)
            /\ UNCHANGED items
       ELSE /\ items' = items @@ (NewId("i", MaxItems, DOMAIN items) :>
                           ItemRow(name, bin_id, description, notes, category_id,
                                   quantity_value))
            /\ ret' = Returned("add_item", "OK", None)
    /\ UNCHANGED <<svc, locations, bins, pc, walk>>

\* Mutant: every update writes the embedding of the text again.
UpdateItemReembeds(item_id, name, category_id, quantity_value, description, notes) ==
    /\ pc = "idle"
    /\ IF item_id \notin DOMAIN items
       THEN /\ ret' = Returned("update_item", "NOT_FOUND", item_id)
            /\ UNCHANGED items
       ELSE IF Truthy(category_id) /\ category_id \notin CategoryIds
       THEN /\ ret' = Returned("update_item", "NOT_FOUND", item_id)
            /\ UNCHANGED items
       ELSE /\ items' = [items EXCEPT ![item_id] =
                   [bin_id |-> @.bin_id,
                    name |-> IF name # None THEN name ELSE @.name,
                    description |-> IF description # None THEN description
                                    ELSE @.description,
                    notes |-> IF notes # None THEN notes ELSE @.notes,
                    category_id |-> IF category_id # None THEN category_id
                                    ELSE @.category_id,
                    quantity_value |-> IF quantity_value # NoQuantity THEN quantity_value
                                       ELSE @.quantity_value,
                    embedding |-> generate_embedding(service,
                        build_item_text(IF name # None THEN name ELSE @.name,
                                        IF description # None THEN description
                                        ELSE @.description,
                                        IF notes # None THEN notes ELSE @.notes))]]
            /\ ret' = Returned("update_item", "OK", item_id)
    /\ UNCHANGED <<svc, locations, bins, pc, walk>>

\* update_item (quantity_type and quantity_label, which are handled as
\* quantity_value is, are left out).
update_item(item_id, name, category_id, quantity_value, description, notes) ==
    /\ pc = "idle"
    /\ IF item_id \notin DOMAIN items
       THEN /\ ret' = Returned("update_item", "NOT_FOUND", item_id)
            /\ UNCHANGED items
       ELSE IF Truthy(category_id) /\ category_id \notin CategoryIds
       THEN /\ ret' = Returned("update_item", "NOT_FOUND", item_id)
            /\ UNCHANGED items
       ELSE /\ items' = [items EXCEPT ![item_id] =
                   [bin_id |-> @.bin_id,
                    name |-> IF name # None THEN name ELSE @.name,
                    description |-> IF description # None THEN description
                                    ELSE @.description,
                    notes |-> IF notes # None THEN notes ELSE @.notes,
                    category_id |-> IF category_id # None THEN category_id
                                    ELSE @.category_id,
                    quantity_value |-> IF quantity_value # NoQuantity THEN quantity_value
                                       ELSE @.quantity_value,
                    embedding |-> @.embedding]]
            /\ ret' = Returned("update_item", "OK", item_id)
    /\ UNCHANGED <<svc, locations, bins, pc, walk>>

\* row["quantity_value"] or d
QuantityOr(row, d) ==
    IF row.quantity_value = NoQuantity \/ row.quantity_value = <<0>> THEN d
    ELSE row.quantity_value[1]

use_item(item_id, quantity) ==
    /\ pc = "idle"
    /\ IF item_id \notin DOMAIN items
       THEN /\ ret' = Returned("use_item", "NOT_FOUND", item_id)
            /\ UNCHANGED items
       ELSE LET current_qty == QuantityOr(items[item_id], 0)
                new_qty == IF current_qty - quantity > 0 THEN current_qty - quantity
                           ELSE 0
            IN  /\ items' = [items EXCEPT ![item_id].quantity_value = <<new_qty>>]
                /\ ret' = Returned("use_item", "OK", item_id)
    /\ UNCHANGED <<svc, locations, bins, pc, walk>>

\* move_item: a quantity below the stored one splits the item, the part
\* moved becoming a new row.
move_item(item_id, to_bin_id, quantity) ==
    /\ pc = "idle"
    /\ IF item_id \notin DOMAIN items \/ to_bin_id \notin DOMAIN bins
       THEN /\ ret' = Returned("move_item", "NOT_FOUND", item_id)
            /\ UNCHANGED items
       ELSE LET row == items[item_id]
                current_qty == QuantityOr(row, 1)
            IN  IF quantity # NoQuantity /\ quantity[1] < current_qty
                THEN /\ Cardinality(DOMAIN items) < MaxItems
                     /\ items' =
                          [items EXCEPT ![item_id].quantity_value =
                                            <<current_qty - quantity[1]>>]
                          @@ (NewId("i", MaxItems, DOMAIN items) :>
                                ItemRow(row.name, to_bin_id, row.description,
                                        row.notes, row.category_id, quantity))
                     /\ ret' = Returned("move_item", "OK", item_id)
                ELSE /\ items' = [items EXCEPT ![item_id].bin_id = to_bin_id]
                     /\ ret' = Returned("move_item", "OK", item_id)
    /\ UNCHANGED <<svc, locations, bins, pc, walk>>

remove_item(item_id) ==
    /\ pc = "idle"
    /\ IF item_id \notin DOMAIN items
       THEN /\ ret' = Returned("remove_item", "NOT_FOUND", None)
            /\ UNCHANGED items
       ELSE /\ items' = Remove(items, item_id)
            /\ ret' = Returned("remove_item", "OK", None)
    /\ UNCHANGED <<svc, locations, bins, pc, walk>>

\* ------------------------------------------- services/system_settings.py
\* Requests are served by async handlers that call the tools without
\* awaiting, one at a time on the event loop; the only other thread is the
\* regeneration worker, whose steps interleave with the handlers.

JobIds == {"t" \o ToString(i) : i \in 1..MaxSwaps}

\* get_setting(db, key, default) on the system_settings table.
get_setting(st, key, default) == IF st[key] = None THEN default ELSE st[key]

get_current_model(st) == get_setting(st, "embedding_model", "all-mpnet-base-v2")

\* Thread.is_alive(): from start() until the target returns.
is_alive(job) == job.pc # "done"

\* Mutant: the status row is consulted instead of the thread.
IsRegenRunningByStatus(st, jb) == st.embedding_regen_status = "running"

\* is_regen_running
is_regen_running(st, jb) == st._regen_thread # None /\ is_alive(jb[st._regen_thread])

\* The locals of _regenerate_embeddings_background as the thread starts.
Job(model_name) ==
    [model_name |-> model_name, pc |-> "started", original_model |-> None,
     rows |-> <<>>, k |-> 1, processed |-> 0, failed |-> 0]

\* change_embedding_model: the setting is written and the thread created and
\* started in the same call.
change_embedding_model(new_model) ==
    /\ pc = "idle"
    /\ IF new_model \notin EMBEDDING_MODELS
       THEN /\ ret' = Returned("change_embedding_model", "ERROR", "Unknown model")
            /\ UNCHANGED <<jobs, sysset>>
       ELSE IF is_regen_running(sysset, jobs)
       THEN /\ ret' = Returned("change_embedding_model", "ERROR",
                               "Embedding regeneration already in progress")
            /\ UNCHANGED <<jobs, sysset>>
       ELSE IF new_model = get_current_model(sysset)
       THEN /\ ret' = Returned("change_embedding_model", "OK", "Model unchanged")
            /\ UNCHANGED <<jobs, sysset>>
       ELSE /\ Cardinality(DOMAIN jobs) < MaxSwaps
            /\ LET thread == NewId("t", MaxSwaps, DOMAIN jobs)
               IN  /\ sysset' = [sysset EXCEPT !.embedding_model = new_model,
                                               !._regen_thread = thread]
                   /\ jobs' = jobs @@ (thread :> Job(new_model))
            /\ ret' = Returned("change_embedding_model", "OK", "success")
    /\ UNCHANGED <<core_tables, pc, walk, service, probe, pending, served>>

\* get_regen_status, polled by /settings/embedding-status: the status, the
\* progress and the total of the answer, written "status progress/total".
get_regen_status ==
    /\ pc = "idle"
    /\ ret' = Returned("get_regen_status", "OK",
                       get_setting(sysset, "embedding_regen_status", "idle") \o " "
                       \o get_setting(sysset, "embedding_regen_progress", "0") \o "/"
                       \o get_setting(sysset, "embedding_regen_total", "0"))
    /\ UNCHANGED <<core_tables, pc, walk, svc>>

\* SELECT id, name, description, notes FROM items, in the order of the ids.
SelectItems(tbl) ==
    LET ids == SelectSeq([i \in 1..MaxItems |-> "i" \o ToString(i)],
                         LAMBDA id : id \in DOMAIN tbl)
    IN  [k \in 1..Len(ids) |->
            [id |-> ids[k], name |-> tbl[ids[k]].name,
             description |-> tbl[ids[k]].description, notes |-> tbl[ids[k]].notes]]

\* The worker, lines 121-132: status running, progress 0, the cached model
\* dropped.
regen_begin(t) ==
    /\ t \in DOMAIN jobs
    /\ jobs[t].pc = "started"
    /\ sysset' = [sysset EXCEPT !.embedding_regen_status = "running",
                                !.embedding_regen_progress = "0"]
    /\ service' = [service EXCEPT !._model = None, !._model_load_attempted = FALSE]
    /\ jobs' = [jobs EXCEPT ![t].pc = "reset"]
    /\ UNCHANGED <<core_tables, ret, pc, walk, probe, pending, served>>

\* Lines 135-150: settings.embedding_model overridden, the items read, the
\* total written; without items the job is completed here.
regen_snapshot(t) ==
    /\ t \in DOMAIN jobs
    /\ jobs[t].pc = "reset"
    /\ service' = [service EXCEPT !.embedding_model = jobs[t].model_name]
    /\ LET rows == SelectItems(items)
       IN  /\ jobs' = [jobs EXCEPT ![t].original_model = service.embedding_model,
                                   ![t].rows = rows,
                                   ![t].pc = IF Len(rows) = 0 THEN "done" ELSE "items"]
           /\ sysset' = [sysset EXCEPT
                  !.embedding_regen_total = ToString(Len(rows)),
                  !.embedding_regen_status =
                      IF Len(rows) = 0 THEN "completed" ELSE @]
    /\ UNCHANGED <<core_tables, ret, pc, walk, probe, pending, served>>

\* Mutant: an item that cannot be embedded ends the loop.
RegenItemAborts(t) ==
    /\ t \in DOMAIN jobs
    /\ jobs[t].pc = "items"
    /\ \E encode_raises \in BOOLEAN :
         LET job == jobs[t]
             row == job.rows[job.k]
             embedding_blob ==
                 IF encode_raises THEN NoEmbedding
                 ELSE generate_embedding(service,
                          build_item_text(row.name, row.description, row.notes))
             processed == IF embedding_blob = NoEmbedding THEN job.processed
                          ELSE job.processed + 1
             last == job.k = Len(job.rows)
         IN  /\ service' = LoadModel(service)
             /\ items' = IF embedding_blob # NoEmbedding /\ row.id \in DOMAIN items
                         THEN [items EXCEPT ![row.id].embedding = embedding_blob]
                         ELSE items
             /\ sysset' = IF /\ embedding_blob # NoEmbedding
                             /\ (processed % 10 = 0 \/ processed = Len(job.rows))
                          THEN [sysset EXCEPT
                                    !.embedding_regen_progress = ToString(processed)]
                          ELSE sysset
             /\ jobs' = [jobs EXCEPT
                    ![t].processed = processed,
                    ![t].failed = IF embedding_blob = NoEmbedding THEN @ + 1 ELSE @,
                    ![t].k = @ + 1,
                    ![t].pc = IF embedding_blob = NoEmbedding THEN "except"
                              ELSE IF last THEN "finish" ELSE "items"]
    /\ UNCHANGED <<locations, bins, ret, pc, walk, probe, pending, served>>

\* One pass of the loop, lines 155-183: the text of the row read at the
\* start, its embedding, the UPDATE of the item (of no row when the item is
\* gone), the progress every 10 items and at the end. model.encode may raise
\* for the text, which generate_embedding catches and answers with None
\* (embedding_service.py:82-87).
regen_item(t) ==
    /\ t \in DOMAIN jobs
    /\ jobs[t].pc = "items"
    /\ \E encode_raises \in BOOLEAN :
         LET job == jobs[t]
             row == job.rows[job.k]
             embedding_blob ==
                 IF encode_raises THEN NoEmbedding
                 ELSE generate_embedding(service,
                          build_item_text(row.name, row.description, row.notes))
             processed == IF embedding_blob = NoEmbedding THEN job.processed
                          ELSE job.processed + 1
             last == job.k = Len(job.rows)
         IN  /\ service' = LoadModel(service)
             /\ items' = IF embedding_blob # NoEmbedding /\ row.id \in DOMAIN items
                         THEN [items EXCEPT ![row.id].embedding = embedding_blob]
                         ELSE items
             /\ sysset' = IF /\ embedding_blob # NoEmbedding
                             /\ (processed % 10 = 0 \/ processed = Len(job.rows))
                          THEN [sysset EXCEPT
                                    !.embedding_regen_progress = ToString(processed)]
                          ELSE sysset
             /\ jobs' = [jobs EXCEPT
                    ![t].processed = processed,
                    ![t].failed = IF embedding_blob = NoEmbedding THEN @ + 1 ELSE @,
                    ![t].k = @ + 1,
                    ![t].pc = IF last THEN "finish" ELSE "items"]
    /\ UNCHANGED <<locations, bins, ret, pc, walk, probe, pending, served>>

\* A statement of the try block that writes to or reads from the database
\* raises (sqlite3.OperationalError: the database is locked, the disk is
\* full): control passes to the except clause.
regen_raise(t) ==
    /\ t \in DOMAIN jobs
    /\ jobs[t].pc \in {"started", "reset", "items", "finish"}
    /\ jobs' = [jobs EXCEPT ![t].pc = "except"]
    /\ UNCHANGED <<core_tables, ret, pc, walk, service, probe, pending, served, sysset>>

\* Lines 186-204: the setting of the process restored, status completed.
regen_finish(t) ==
    /\ t \in DOMAIN jobs
    /\ jobs[t].pc = "finish"
    /\ service' = [service EXCEPT !.embedding_model = jobs[t].original_model]
    /\ sysset' = [sysset EXCEPT !.embedding_regen_status = "completed",
                                !.embedding_regen_progress = ToString(jobs[t].processed)]
    /\ jobs' = [jobs EXCEPT ![t].pc = "done"]
    /\ UNCHANGED <<core_tables, ret, pc, walk, probe, pending, served>>

\* Lines 206-209: set_setting writes status failed, or raises in its turn;
\* an exception that leaves the except clause ends the thread.
regen_except(t) ==
    /\ t \in DOMAIN jobs
    /\ jobs[t].pc = "except"
    /\ \/ sysset' = [sysset EXCEPT !.embedding_regen_status = "failed"]
       \/ UNCHANGED sysset
    /\ jobs' = [jobs EXCEPT ![t].pc = "done"]
    /\ UNCHANGED <<core_tables, ret, pc, walk, service, probe, pending, served>>

\* _regenerate_embeddings_background: the next step of thread t.
_regenerate_embeddings_background(t) ==
    \/ regen_begin(t)
    \/ regen_snapshot(t)
    \/ regen_item(t)
    \/ regen_raise(t)
    \/ regen_finish(t)
    \/ regen_except(t)

\* The calls of the embedding service a request makes, each run to its end.
\* What is_available returns is written "True" or "False".
Count(op) == IF op \in DOMAIN served THEN served[op] ELSE 0
Serve(op) == [x \in DOMAIN served \cup {op} |->
                 IF x = op THEN Count(x) + 1 ELSE served[x]]

is_available_call ==
    /\ pc = "idle"
    /\ Count("is_available") < MaxCalls
    /\ ret' = Returned("is_available", "OK",
                       IF is_available(service) THEN "True" ELSE "False")
    /\ service' = LoadModel(service)
    /\ served' = Serve("is_available")
    /\ UNCHANGED <<core_tables, pc, walk, probe, pending, jobs, sysset>>

generate_embedding_call(text) ==
    /\ pc = "idle"
    /\ Count("generate_embedding") < MaxCalls
    /\ ret' = Returned("generate_embedding", "OK", generate_embedding(service, text))
    /\ service' = LoadModel(service)
    /\ served' = Serve("generate_embedding")
    /\ UNCHANGED <<core_tables, pc, walk, probe, pending, jobs, sysset>>

\* generate_query_embedding: the array, not the bytes, of the same vector.
generate_query_embedding_call(query) ==
    /\ pc = "idle"
    /\ Count("generate_query_embedding") < MaxCalls
    /\ ret' = Returned("generate_query_embedding", "OK",
                       generate_embedding(service, query))
    /\ service' = LoadModel(service)
    /\ served' = Serve("generate_query_embedding")
    /\ UNCHANGED <<core_tables, pc, walk, probe, pending, jobs, sysset>>

\* ------------------------------------------------------------ specification
EmptyTable == [x \in {} |-> None]

\* No search asked, no request thread, no worker, an empty system_settings
\* table and no _regen_thread.
NoProbe == [query |-> <<>>, empty_match |-> "rows", rows |-> <<>>]
NoSettings == [embedding_model |-> None, embedding_regen_status |-> None,
               embedding_regen_progress |-> None, embedding_regen_total |-> None,
               _regen_thread |-> None]

SvcStart(embedding_enabled, installed) ==
    /\ service = ServiceStart(embedding_enabled, installed)
    /\ probe = NoProbe
    /\ served = EmptyTable
    /\ pending = EmptyTable
    /\ jobs = EmptyTable
    /\ sysset = NoSettings

Init ==
    /\ locations = EmptyTable
    /\ bins = EmptyTable
    /\ items = EmptyTable
    /\ ret = Returned(None, None, None)
    /\ pc = "idle"
    /\ walk = NoWalk
    /\ SvcStart(TRUE, TRUE)

\* The calls tried, their arguments drawn from the sets given.
CreateLocation == \E name \in LocNames : create_location(name)
DeleteLocation == \E l \in LocIds : delete_location(l)
CreateBinFrom(names, locs, parents, descs) ==
    \E name \in names, l \in locs, p \in parents, d \in descs :
        create_bin(name, l, p, d)
UpdateBinFrom(names, locs, parents, descs) ==
    \E b \in BinIds, name \in names, l \in locs, p \in parents, d \in descs :
        update_bin(b, name, l, p, d)
DeleteBin == \E b \in BinIds : delete_bin(b)
AddItem == \E b \in BinIds : add_item("n", b, None, None, None, <<1>>)
RemoveItem == \E i \in ItemIds : remove_item(i)

IsDescendantCall == \E a \in BinIds, b \in BinIds : is_descendant_call(a, b)
AncestorsCall == \E b \in BinIds : ancestors_call(b)
BuildBinPathCall ==
    \E b \in BinIds, include_location \in BOOLEAN :
        build_bin_path_call(b, include_location)
GetBinTree ==
    \E l \in LocIds \cup {None}, r \in BinIds \cup {None}, d \in 0..MaxDepth :
        get_bin_tree(l, r, d)

\* Spec: renames, moves and location changes of bins, the empty string among
\* the arguments.
CreateBin == CreateBinFrom(BinNames \cup {""}, LocIds \cup {""},
                           BinIds \cup {None}, {None})
UpdateBin == UpdateBinFrom(BinNames \cup {"", None}, LocIds \cup {"", None},
                           BinIds \cup {None, ""}, {None})

Next ==
    \/ CreateLocation
    \/ CreateBin
    \/ UpdateBin
    \/ DeleteBin

Spec == Init /\ [][Next]_vars

\* MoveSpec: moves and location changes that also rewrite the description.
MoveCreateBin == CreateBinFrom(BinNames, LocIds, BinIds \cup {None}, {None})
MoveUpdateBin == UpdateBinFrom({None}, LocIds \cup {"", None},
                               BinIds \cup {None, ""}, Descriptions \cup {None})

MoveNext ==
    \/ CreateLocation
    \/ MoveCreateBin
    \/ MoveUpdateBin
    \/ DeleteBin

MoveSpec == Init /\ [][MoveNext]_vars

\* ItemSpec: bins that hold items and child bins, and their deletion.
ItemCreateBin == CreateBinFrom(BinNames \cup {""}, LocIds, BinIds \cup {None}, {None})
ItemUpdateBin == UpdateBinFrom({None}, {None}, BinIds \cup {None, ""}, {None})

ItemNext ==
    \/ CreateLocation
    \/ DeleteLocation
    \/ ItemCreateBin
    \/ ItemUpdateBin
    \/ DeleteBin
    \/ AddItem
    \/ RemoveItem

ItemSpec == Init /\ [][ItemNext]_vars

\* QuerySpec: the read helpers applied to the stores the tools build.
QueryCreateBin == CreateBinFrom(BinNames \cup {""}, LocIds, BinIds \cup {None}, {None})
QueryUpdateBin == UpdateBinFrom({None}, {None, ""}, {None}, {None})

QueryNext ==
    \/ CreateLocation
    \/ QueryCreateBin
    \/ QueryUpdateBin
    \/ IsDescendantCall
    \/ is_descendant_pass
    \/ AncestorsCall
    \/ BuildBinPathCall
    \/ ancestors_first
    \/ ancestors_pass

QuerySpec == Init /\ [][QueryNext]_vars

\* Any content of the bins table over the names given, parent links that form
\* a cycle or name a missing bin included: the read helpers take the table as
\* they find it.
BinRows(names) == [name : names, location_id : LocIds,
                   parent_bin_id : BinIds \cup {None}, description : {None}]
Stores(names) == UNION {[present -> BinRows(names)] : present \in SUBSET BinIds}

AnyStore(names) ==
    /\ locations = [l \in LocIds |-> [name |-> "G"]]
    /\ bins \in Stores(names)
    /\ items = EmptyTable
    /\ ret = Returned(None, None, None)
    /\ pc = "idle"
    /\ walk = NoWalk
    /\ SvcStart(TRUE, TRUE)

\* WalkSpec: the traversals on any table.
WalkInit == AnyStore(BinNames)

WalkNext ==
    \/ IsDescendantCall
    \/ is_descendant_pass
    \/ AncestorsCall
    \/ BuildBinPathCall
    \/ ancestors_first
    \/ ancestors_pass

WalkSpec == WalkInit /\ [][WalkNext]_vars

\* TreeSpec: get_bin_tree on any table.
TreeInit == AnyStore(BinNames \cup {""})

TreeNext == GetBinTree

TreeSpec == TreeInit /\ [][TreeNext]_vars

\* SearchSpec: search_items on what the storage layer answers. The rows of
\* an answer are drawn from the kinds of row below, repeating with a stride
\* from an offset, so that answers of more than 50 rows are among them.
RowKinds ==
    <<[fts |-> <<-250>>, alias |-> <<>>, sim |-> <<>>],
      [fts |-> <<-250>>, alias |-> <<>>, sim |-> <<800>>],
      [fts |-> <<>>, alias |-> <<-250>>, sim |-> <<>>],
      [fts |-> <<>>, alias |-> <<-250>>, sim |-> <<350>>],
      [fts |-> <<>>, alias |-> <<>>, sim |-> <<350>>],
      [fts |-> <<>>, alias |-> <<>>, sim |-> <<450>>],
      [fts |-> <<>>, alias |-> <<>>, sim |-> <<290>>],
      [fts |-> <<-1500>>, alias |-> <<>>, sim |-> <<100>>],
      [fts |-> <<0>>, alias |-> <<>>, sim |-> <<>>],
      [fts |-> <<-250>>, alias |-> <<-300>>, sim |-> <<>>],
      [fts |-> <<>>, alias |-> <<>>, sim |-> <<400>>],
      [fts |-> <<>>, alias |-> <<-40>>, sim |-> <<300>>],
      [fts |-> <<>>, alias |-> <<>>, sim |-> <<950>>]>>

ProbeRows(n, stride, offset) ==
    [j \in 1..n |->
        LET kind == RowKinds[((j * stride + offset) % Len(RowKinds)) + 1]
        IN  [id |-> "i" \o ToString(j), bin_id |-> "b1",
             fts |-> kind.fts, alias |-> kind.alias, sim |-> kind.sim]]

\* Queries, character by character: empty, blank, one term, two terms.
Queries == {<<>>, <<" ">>, <<" ", " ">>, <<"h">>, <<"h", " ", "d", " ">>}

Probes ==
    {[query |-> q, empty_match |-> e, rows |-> ProbeRows(n, stride, offset)] :
        q \in Queries, e \in {"rows", "error"},
        n \in (0..2) \cup {MaxHits - 1, MaxHits},
        stride \in {1, 3}, offset \in {0, 4, 9}}

SearchInit ==
    /\ locations = [l \in {"L1"} |-> [name |-> "G"]]
    /\ bins = [b \in {"b1"} |-> [name |-> "a", location_id |-> "L1",
                                 parent_bin_id |-> None, description |-> None]]
    /\ items = EmptyTable
    /\ ret = Returned(None, None, None)
    /\ pc = "idle"
    /\ walk = NoWalk
    /\ \E embedding_enabled \in BOOLEAN, installed \in BOOLEAN :
           service = ServiceStart(embedding_enabled, installed)
    /\ probe \in {pr \in Probes : FtsQuery(pr.query) # "" => pr.empty_match = "rows"}
    /\ served = EmptyTable
    /\ pending = EmptyTable
    /\ jobs = EmptyTable
    /\ sysset = NoSettings

SearchNext == search_items

SearchSpec == SearchInit /\ [][SearchNext]_vars

\* EmbedSpec: items edited while the embedding model is swapped. One
\* location, two bins; sentence-transformers installed or not.
EmbedInit ==
    /\ locations = [l \in {"L1"} |-> [name |-> "G"]]
    /\ bins = [b \in {"b1", "b2"} |-> [name |-> "a", location_id |-> "L1",
                                       parent_bin_id |-> None, description |-> None]]
    /\ items = EmptyTable
    /\ ret = Returned(None, None, None)
    /\ pc = "idle"
    /\ walk = NoWalk
    /\ \E installed \in BOOLEAN : service = ServiceStart(TRUE, installed)
    /\ probe = NoProbe
    /\ served = EmptyTable
    /\ pending = EmptyTable
    /\ jobs = EmptyTable
    /\ sysset = NoSettings

EmbedAddItem == add_item("n", "b1", None, None, None, <<2>>)
EmbedUpdateItem ==
    \E i \in ItemIds, name \in {None, "m"}, description \in {None, "d"},
       quantity_value \in {NoQuantity, <<2>>} :
        update_item(i, name, None, quantity_value, description, None)
UseItem == \E i \in ItemIds : use_item(i, 1)
MoveItem ==
    \E i \in ItemIds, b \in {"b1", "b2"}, quantity \in {NoQuantity} :
        move_item(i, b, quantity)
ChangeEmbeddingModel ==
    \E new_model \in EMBEDDING_MODELS \cup {"bogus"} : change_embedding_model(new_model)
RegenStep == \E t \in JobIds : _regenerate_embeddings_background(t)

\* In EmbedSpec one item is added, and moved whole.
EmbedFirstItem == items = EmptyTable /\ EmbedAddItem

EmbedNext ==
    \/ EmbedFirstItem
    \/ EmbedUpdateItem
    \/ UseItem
    \/ MoveItem
    \/ ChangeEmbeddingModel
    \/ RegenStep

EmbedSpec == EmbedInit /\ [][EmbedNext]_vars

\* RegenSpec: the swap alone, the worker scheduled again and again until
\* its function returns.
RegenNext ==
    \/ EmbedAddItem
    \/ ChangeEmbeddingModel
    \/ get_regen_status
    \/ is_available_call
    \/ RegenStep

RegenSpec ==
    /\ EmbedInit
    /\ [][RegenNext]_vars
    /\ \A t \in JobIds : WF_vars(_regenerate_embeddings_background(t))

\* LoadSpec: calls of the embedding service, no swap; embeddings enabled or
\* not, sentence-transformers installed or not.
LoadInit ==
    /\ locations = EmptyTable
    /\ bins = EmptyTable
    /\ items = EmptyTable
    /\ ret = Returned(None, None, None)
    /\ pc = "idle"
    /\ walk = NoWalk
    /\ \E embedding_enabled \in BOOLEAN, installed \in BOOLEAN :
           SvcStart(embedding_enabled, installed)

GenerateEmbedding == \E text \in {"n", "n d"} : generate_embedding_call(text)
GenerateQueryEmbedding == \E query \in {"h"} : generate_query_embedding_call(query)

LoadNext ==
    \/ is_available_call
    \/ GenerateEmbedding
    \/ GenerateQueryEmbedding

LoadSpec == LoadInit /\ [][LoadNext]_vars

\* RankSpec: search_items on two items the probes matched with any two
\* ranks, in hundredths; bm25 ranks are negative or, at worst, 0. An item is
\* matched by name or description (kind "fts") or through an alias.
Ranks == {-2000, -1001, -1000, -999, -500, -250, -100, -50, -10, -1, 0}

RankRow(id, kind, rank) ==
    [id |-> id, bin_id |-> "b1",
     fts |-> IF kind = "fts" THEN <<rank>> ELSE <<>>,
     alias |-> IF kind = "alias" THEN <<rank>> ELSE <<>>,
     sim |-> <<>>]

RankInit ==
    /\ locations = [l \in {"L1"} |-> [name |-> "G"]]
    /\ bins = [b \in {"b1"} |-> [name |-> "a", location_id |-> "L1",
                                 parent_bin_id |-> None, description |-> None]]
    /\ items = EmptyTable
    /\ ret = Returned(None, None, None)
    /\ pc = "idle"
    /\ walk = NoWalk
    /\ \E installed \in BOOLEAN : service = ServiceStart(TRUE, installed)
    /\ \E r1 \in Ranks, r2 \in Ranks, kind \in {"fts", "alias"} :
           probe = [query |-> <<"h">>, empty_match |-> "rows",
                    rows |-> <<RankRow("i1", "fts", r1), RankRow("i2", kind, r2)>>]
    /\ served = EmptyTable
    /\ pending = EmptyTable
    /\ jobs = EmptyTable
    /\ sysset = NoSettings

RankNext == search_items

RankSpec == RankInit /\ [][RankNext]_vars

\* RaceSpec: update_bin as the server processes that share the database file
\* run it. Every query of update_bin opens, commits and closes a connection
\* of its own, so the SELECTs that verify the move and the UPDATE that writes
\* it are separate transactions, and another process may write between them.
ServerIds == {"p" \o ToString(i) : i \in 1..MaxServers}

\* The SELECTs of update_bin: the row, the early returns, and the new column
\* values, all computed from what the process read.
update_bin_check(p, bin_id, name, location_id, parent_bin_id, description) ==
    LET outcome == UpdateBinOutcome(bins, locations, bin_id, name, location_id,
                                    parent_bin_id)
    IN  /\ pc = "idle"
        /\ p \notin DOMAIN pending
        /\ IF outcome = "OK"
           THEN /\ pending' = pending @@ (p :> [bin_id |-> bin_id, row |->
                      [name |-> IF name # None THEN name ELSE bins[bin_id].name,
                       location_id |-> IF location_id # None THEN location_id
                                       ELSE bins[bin_id].location_id,
                       parent_bin_id |-> NewParent(bins[bin_id], parent_bin_id),
                       description |-> IF description # None THEN description
                                       ELSE bins[bin_id].description]])
                /\ UNCHANGED ret
           ELSE /\ ret' = Returned("update_bin", outcome, None)
                /\ UNCHANGED pending
        /\ UNCHANGED <<core_tables, pc, walk, service, probe, served, jobs, sysset>>

\* The UPDATE of update_bin, WHERE id = bin_id, and the return of the bin.
update_bin_write(p) ==
    /\ pc = "idle"
    /\ p \in DOMAIN pending
    /\ bins' = IF pending[p].bin_id \in DOMAIN bins
               THEN [bins EXCEPT ![pending[p].bin_id] = pending[p].row]
               ELSE bins
    /\ pending' = Remove(pending, p)
    /\ ret' = Returned("update_bin", "OK", None)
    /\ UNCHANGED <<locations, items, pc, walk, service, probe, served, jobs, sysset>>

RaceCreateBin == CreateBinFrom({"a", "b"}, LocIds, BinIds \cup {None}, {None})
UpdateBinCheck ==
    \E p \in ServerIds, b \in BinIds, parent \in BinIds \cup {""} :
        update_bin_check(p, b, None, None, parent, None)
UpdateBinWrite == \E p \in ServerIds : update_bin_write(p)

RaceNext ==
    \/ CreateLocation
    \/ RaceCreateBin
    \/ UpdateBinCheck
    \/ UpdateBinWrite

RaceSpec == Init /\ [][RaceNext]_vars

\* RelocateSpec: create_bin and update_bin on a store with two locations.
TwoLocations == [l \in {"L1", "L2"} |-> [name |-> "G" \o l]]

RelocateInit ==
    /\ locations = TwoLocations
    /\ bins = EmptyTable
    /\ items = EmptyTable
    /\ ret = Returned(None, None, None)
    /\ pc = "idle"
    /\ walk = NoWalk
    /\ SvcStart(TRUE, TRUE)

RelocateCreateBin ==
    CreateBinFrom({"a", "b"}, DOMAIN TwoLocations, BinIds \cup {None}, {None})
RelocateUpdateBin ==
    UpdateBinFrom({None}, DOMAIN TwoLocations \cup {None},
                  BinIds \cup {None, ""}, {None})

RelocateNext == RelocateCreateBin \/ RelocateUpdateBin

RelocateSpec == RelocateInit /\ [][RelocateNext]_vars

\* AvailSpec: the worker thread taken statement by statement where it
\* touches the module globals _model and _model_load_attempted, with the
\* calls of the request thread between its statements.

\* Lines 124-131 of the worker: status running, progress 0, _model = None.
regen_drop_model(t) ==
    /\ t \in DOMAIN jobs
    /\ jobs[t].pc = "started"
    /\ sysset' = [sysset EXCEPT !.embedding_regen_status = "running",
                                !.embedding_regen_progress = "0"]
    /\ service' = [service EXCEPT !._model = None]
    /\ jobs' = [jobs EXCEPT ![t].pc = "reset_flag"]
    /\ UNCHANGED <<core_tables, ret, pc, walk, probe, pending, served>>

\* Line 132 of the worker: _model_load_attempted = False.
regen_reset_flag(t) ==
    /\ t \in DOMAIN jobs
    /\ jobs[t].pc = "reset_flag"
    /\ service' = [service EXCEPT !._model_load_attempted = FALSE]
    /\ jobs' = [jobs EXCEPT ![t].pc = "reset"]
    /\ UNCHANGED <<core_tables, ret, pc, walk, probe, pending, served, sysset>>

\* _load_model in the worker, called by generate_embedding for a row: the
\* flag is found unset and is set (lines 21-24).
_load_model_flag(t) ==
    /\ t \in DOMAIN jobs
    /\ jobs[t].pc = "items"
    /\ ~service._model_load_attempted
    /\ service' = [service EXCEPT !._model_load_attempted = TRUE]
    /\ jobs' = [jobs EXCEPT ![t].pc = "loading"]
    /\ UNCHANGED <<core_tables, ret, pc, walk, probe, pending, served, sysset>>

\* _load_model in the worker, lines 26-41: the import and the construction
\* of the SentenceTransformer, which reads and initialises the model files.
_load_model_construct(t) ==
    /\ t \in DOMAIN jobs
    /\ jobs[t].pc = "loading"
    /\ service' = LoadAttempt(service)
    /\ jobs' = [jobs EXCEPT ![t].pc = "items"]
    /\ UNCHANGED <<core_tables, ret, pc, walk, probe, pending, served, sysset>>

\* The next statement of worker thread t.
AvailWorker(t) ==
    \/ regen_drop_model(t)
    \/ regen_reset_flag(t)
    \/ regen_snapshot(t)
    \/ _load_model_flag(t)
    \/ _load_model_construct(t)
    \/ service._model_load_attempted /\ regen_item(t)
    \/ regen_finish(t)

AvailStep == \E t \in JobIds : AvailWorker(t)

AvailNext ==
    \/ EmbedFirstItem
    \/ ChangeEmbeddingModel
    \/ is_available_call
    \/ GenerateQueryEmbedding
    \/ AvailStep

AvailSpec == EmbedInit /\ [][AvailNext]_vars

\* ------------------------------------------------------------- properties

\* The parent links as a relation, read off the table without the helpers.
ParentOf(db, b) ==
    IF b \in DOMAIN db /\ db[b].parent_bin_id \in DOMAIN db
    THEN {db[b].parent_bin_id} ELSE {}

RECURSIVE Up(_, _, _)
Up(db, from, n) ==
    IF n = 0 THEN {}
    ELSE LET parents == UNION {ParentOf(db, b) : b \in from}
         IN  parents \cup Up(db, parents, n - 1)

\* The bins reached from b by one or more parent links.
StrictAncestors(db, b) == Up(db, {b}, Cardinality(DOMAIN db))

Acyclic(db) == \A b \in DOMAIN db : b \notin StrictAncestors(db, b)

\* Some bin has a parent that has a parent.
ThreeLevels(db) ==
    \E b \in DOMAIN db : \E p \in ParentOf(db, b) : ParentOf(db, p) # {}

AnyLoc == LocIds \cup {"", None}
AnyDesc == Descriptions \cup {None}

\* C1: after any sequence of create_bin, update_bin and delete_bin calls from
\* the empty store, no bin is reached from itself by following parent links.
C1_ParentLinksAcyclic == Acyclic(bins)

\* C1 witness: a move into a descendant was refused in a three-level chain.
C1_Witness ==
    /\ ret.op = "update_bin"
    /\ ret.error_code = "CIRCULAR_REFERENCE"
    /\ ThreeLevels(bins)

\* The update_bin calls C2 is about: X exists and the requested parent P is X
\* or has X among its ancestors.
CircularMove(X, P) == P = X \/ X \in StrictAncestors(bins, P)

\* C2 as stated: every update_bin call on X whose requested parent P is X or
\* a descendant of X returns CIRCULAR_REFERENCE and leaves every bin record
\* unchanged.
C2_Original ==
    [][\A X \in DOMAIN bins, P \in DOMAIN bins :
          CircularMove(X, P) =>
              \A l \in AnyLoc, d \in AnyDesc :
                  \/ (ret'.error_code = "CIRCULAR_REFERENCE" /\ bins' = bins)
                  \/ ~update_bin(X, None, l, P, d)]_vars

\* C2 as amended: such a call returns an error and leaves every bin record
\* unchanged; the error is CIRCULAR_REFERENCE when P's location_id is the
\* location the call leaves X with (its location_id argument, X's own
\* location_id when none is given), and NOT_FOUND or INVALID_INPUT from the
\* location checks otherwise.
C2_Amended ==
    [][\A X \in DOMAIN bins, P \in DOMAIN bins :
          CircularMove(X, P) =>
              \A l \in AnyLoc, d \in AnyDesc :
                  \/ /\ bins' = bins
                     /\ IF bins[P].location_id =
                              (IF l # None THEN l ELSE bins[X].location_id)
                        THEN ret'.error_code = "CIRCULAR_REFERENCE"
                        ELSE ret'.error_code \in {"NOT_FOUND", "INVALID_INPUT"}
                  \/ ~update_bin(X, None, l, P, d)]_vars

\* C2 witness: a move under a descendant two levels down was refused while a
\* description was on record.
C2_Witness ==
    /\ ret.op = "update_bin"
    /\ ret.error_code = "CIRCULAR_REFERENCE"
    /\ ThreeLevels(bins)
    /\ \E b \in DOMAIN bins : bins[b].description # None

Elements(seq) == {seq[i] : i \in 1..Len(seq)}

\* C3: on an acyclic store and for distinct bins a and b, _is_descendant(a, b)
\* is true exactly when a is in _get_bin_ancestors(b), and false when neither
\* bin is an ancestor of the other.
C3_DescendantIffInAncestors ==
    (/\ ret.op = "_is_descendant"
     /\ ret.value.potential_ancestor_id \in DOMAIN bins
     /\ ret.value.potential_descendant_id \in DOMAIN bins
     /\ ret.value.potential_ancestor_id # ret.value.potential_descendant_id
     /\ Acyclic(bins))
    => LET a == ret.value.potential_ancestor_id
           b == ret.value.potential_descendant_id
       IN  /\ ret.value.result = (a \in Elements(_get_bin_ancestors(bins, b)))
           /\ (a \notin StrictAncestors(bins, b) /\ b \notin StrictAncestors(bins, a))
                  => ret.value.result = FALSE

\* C3 witness: _is_descendant found an ancestor two levels up.
C3_Witness ==
    /\ ret.op = "_is_descendant"
    /\ ret.value.result = TRUE
    /\ ret.value.potential_ancestor_id \in DOMAIN bins
    /\ ret.value.potential_descendant_id \in DOMAIN bins
    /\ ret.value.potential_ancestor_id
           \in StrictAncestors(bins, ret.value.potential_descendant_id)
    /\ ret.value.potential_ancestor_id
           \notin ParentOf(bins, ret.value.potential_descendant_id)

\* C4: for every bin x, _is_descendant(x, x) returns false.
C4_NotOwnDescendant ==
    (/\ ret.op = "_is_descendant"
     /\ ret.value.potential_ancestor_id \in DOMAIN bins
     /\ ret.value.potential_ancestor_id = ret.value.potential_descendant_id)
    => ret.value.result = FALSE

\* The parent chain of x from the root-level ancestor down to the immediate
\* parent, built from the top: the chain of the parent, then the parent.
RECURSIVE ChainAbove(_, _, _)
ChainAbove(db, x, n) ==
    IF n = 0 \/ ParentOf(db, x) = {} THEN <<>>
    ELSE LET p == db[x].parent_bin_id
         IN  Append(ChainAbove(db, p, n - 1), p)

\* The names on a chain joined by "/", built from the left.
RECURSIVE Slashed(_, _, _)
Slashed(db, chain, n) ==
    IF n = 0 THEN ""
    ELSE IF n = 1 THEN db[chain[1]].name
    ELSE Slashed(db, chain, n - 1) \o "/" \o db[chain[n]].name

\* C5: on an acyclic store and for every existing bin x, _get_bin_ancestors(x)
\* is x's parent chain from the root-level ancestor down to the immediate
\* parent, and _build_bin_path(x, include_location) is the "/"-join of the
\* location name (when asked for), those ancestors' names and x's own name.
C5_AncestorsAndPath ==
    /\ (ret.op = "_get_bin_ancestors" /\ ret.value.bin_id \in DOMAIN bins
        /\ Acyclic(bins))
       => ret.value.result
              = ChainAbove(bins, ret.value.bin_id, Cardinality(DOMAIN bins))
    /\ (ret.op = "_build_bin_path" /\ ret.value.bin_id \in DOMAIN bins
        /\ Acyclic(bins))
       => LET x == ret.value.bin_id
              chain == Append(ChainAbove(bins, x, Cardinality(DOMAIN bins)), x)
              names == Slashed(bins, chain, Len(chain))
          IN  IF ~ret.value.include_location THEN ret.value.result = names
              ELSE /\ bins[x].location_id \in DOMAIN locations
                   /\ ret.value.result
                          = locations[bins[x].location_id].name \o "/" \o names

\* C6: on every store, parent links that form a cycle or name a missing bin
\* included, _get_bin_ancestors, _build_bin_path and _is_descendant stop after
\* finitely many lookups: _is_descendant reads at most one row per bin and
\* one more, _get_bin_ancestors one more than that, _build_bin_path one more
\* again.
C6_TraversalsTerminate ==
    walk.lookups <= Cardinality(DOMAIN bins)
                      + (IF walk.fn = "_is_descendant" THEN 1
                         ELSE IF walk.fn = "_get_bin_ancestors" THEN 2
                         ELSE 3)

\* C6 witness: _get_bin_ancestors returned for a bin that lies on a cycle.
C6_Witness ==
    /\ pc = "idle"
    /\ ret.op = "_get_bin_ancestors"
    /\ walk.fn = "_get_bin_ancestors"
    /\ ret.value.bin_id \in StrictAncestors(bins, ret.value.bin_id)
    /\ Cardinality(StrictAncestors(bins, ret.value.bin_id)) > 1

\* C7: on every store, cycles included, the list _get_bin_ancestors(x) returns
\* never contains x.
C7_AncestorsExcludeSelf ==
    ret.op = "_get_bin_ancestors"
        => ret.value.bin_id \notin Elements(ret.value.result)

\* The store's child bins of a bin.
ChildrenOf(db, b) == {c \in DOMAIN db : db[c].parent_bin_id = b}

\* A returned node and everything under it respects max_depth: no node lies
\* deeper than level max_depth, a node at level max_depth is a leaf, and a
\* node above that level lists each of its child bins once.
RECURSIVE NodeWithinDepth(_, _, _, _)
NodeWithinDepth(db, node, level, max_depth) ==
    /\ level <= max_depth
    /\ node.id \in DOMAIN db
    /\ IF level = max_depth
       THEN node.children = <<>> /\ node.child_count = 0
       ELSE /\ {node.children[i].id : i \in 1..Len(node.children)}
                   = ChildrenOf(db, node.id)
            /\ Len(node.children) = Cardinality(ChildrenOf(db, node.id))
    /\ \A i \in 1..Len(node.children) :
           NodeWithinDepth(db, node.children[i], level + 1, max_depth)

C9_SiblingNamesUnique ==
    \A b1 \in DOMAIN bins, b2 \in DOMAIN bins :
        (/\ bins[b1].location_id = bins[b2].location_id
         /\ bins[b1].parent_bin_id = bins[b2].parent_bin_id
         /\ bins[b1].name = bins[b2].name)
        => b1 = b2

\* C10 as stated: delete_bin(X) removes X only when X has no child bins and
\* no items; with a child bin it returns HAS_CHILDREN, with an item it
\* returns HAS_DEPENDENCIES, and in both cases bins and items are unchanged.
C10_Original ==
    [][\A X \in DOMAIN bins :
          delete_bin(X)
              => /\ ChildrenOf(bins, X) # {} => ret'.error_code = "HAS_CHILDREN"
                 /\ (\E i \in DOMAIN items : items[i].bin_id = X)
                        => ret'.error_code = "HAS_DEPENDENCIES"
                 /\ (ChildrenOf(bins, X) # {}
                       \/ \E i \in DOMAIN items : items[i].bin_id = X)
                        => (bins' = bins /\ items' = items)]_vars

\* C10 as amended: with a child bin delete_bin(X) returns HAS_CHILDREN, with
\* an item and no child bin it returns HAS_DEPENDENCIES, in both cases bins
\* and items are unchanged; otherwise X alone is removed.
C10_Amended ==
    [][\A X \in DOMAIN bins :
          delete_bin(X)
              => IF ChildrenOf(bins, X) # {}
                 THEN /\ ret'.error_code = "HAS_CHILDREN"
                      /\ bins' = bins /\ items' = items
                 ELSE IF \E i \in DOMAIN items : items[i].bin_id = X
                 THEN /\ ret'.error_code = "HAS_DEPENDENCIES"
                      /\ bins' = bins /\ items' = items
                 ELSE /\ ret'.error_code = "OK"
                      /\ DOMAIN bins' = DOMAIN bins \ {X}
                      /\ \A b \in DOMAIN bins' : bins'[b] = bins[b]
                      /\ items' = items]_vars

\* C10 witness: a delete was refused for a bin that holds an item.
C10_Witness ==
    /\ ret.op = "delete_bin"
    /\ ret.error_code = "HAS_DEPENDENCIES"
    /\ \E i \in DOMAIN items : ChildrenOf(bins, items[i].bin_id) = {}

\* ----------------------------------------------------- search properties

\* C11: search_items called with an empty or blank query returns an empty
\* list, raises nothing and sends no probe to the storage layer: no lexical
\* probe, no alias probe, no embedding fetch.
C11_EmptyQueryTouchesNothing ==
    (ret.op = "search_items" /\ Split(probe.query) = <<>>)
    => /\ ret.error_code = "OK"
       /\ ret.value.results = <<>>
       /\ ret.value.reads = <<0, 0, 0>>

\* The probe row a result was built from.
RowOf(result) ==
    CHOOSE j \in 1..Len(probe.rows) : probe.rows[j].id = result.id

\* A row the lexical probes matched: by name or description, or by alias.
LexicalMatch(row) == FtsQuery(probe.query) # "" /\ (row.fts # <<>> \/ row.alias # <<>>)

Survivor(row) ==
    \/ LexicalMatch(row)
    \/ /\ is_available(service)
       /\ row.sim # <<>>
       /\ row.sim[1] >= 400

\* The combined score of a surviving row, in 1/100000: half the lexical score
\* capped at 1.0 plus half the similarity, a similarity under 0.3 or without
\* a model counting for nothing.
HybridScore(row) ==
    LET lexical == IF ~LexicalMatch(row) THEN 0
                   ELSE IF row.fts # <<>>
                   THEN (IF row.fts[1] = 0 THEN 1000
                         ELSE IF row.fts[1] < 0 THEN -10 * row.fts[1] ELSE 10 * row.fts[1])
                   ELSE (IF row.alias[1] = 0 THEN 900
                         ELSE IF row.alias[1] < 0 THEN -9 * row.alias[1] ELSE 9 * row.alias[1])
        semantic == IF is_available(service) /\ row.sim # <<>> /\ row.sim[1] >= 300
                    THEN row.sim[1] ELSE 0
    IN  5 * (IF lexical > 10000 THEN 10000 ELSE lexical) + 50 * semantic

\* C13: search_items returns at most 50 results, no item id twice, in order
\* of non-increasing match_score, and no surviving candidate left out has a
\* strictly higher combined score than a returned one.
C13_TopFiftyByScore ==
    (ret.op = "search_items" /\ ret.error_code = "OK")
    => LET results == ret.value.results
       IN  /\ Len(results) <= 50
           /\ \A k, m \in 1..Len(results) : k # m => results[k].id # results[m].id
           /\ \A k \in 1..(Len(results) - 1) :
                  results[k].match_score >= results[k + 1].match_score
           /\ \A k \in 1..Len(results) :
                  results[k].match_score = HybridScore(probe.rows[RowOf(results[k])])
           /\ \A j \in 1..Len(probe.rows) :
                  (/\ Survivor(probe.rows[j])
                   /\ \A k \in 1..Len(results) : results[k].id # probe.rows[j].id)
                  => \A k \in 1..Len(results) :
                         results[k].match_score >= HybridScore(probe.rows[j])

\* C13 witness: more than 50 candidates survived, 50 were returned, of
\* different scores, and a candidate was cut.
C13_Witness ==
    /\ ret.op = "search_items"
    /\ ret.error_code = "OK"
    /\ Len(ret.value.results) = 50
    /\ ret.value.results[1].match_score > ret.value.results[50].match_score
    /\ \E j \in 1..Len(probe.rows) :
           /\ Survivor(probe.rows[j])
           /\ \A k \in 1..Len(ret.value.results) :
                  ret.value.results[k].id # probe.rows[j].id

\* The ranking when every item's semantic contribution is 0.
LexicalRanking == Capped(CombinedFrom(probe, {}))

\* C14: when the embedding model cannot be loaded or embeddings are
\* disabled, search_items raises no error and returns exactly the items of
\* the pure lexical ranking, in the same order.
C14_DegradesToLexical ==
    (ret.op = "search_items" /\ ~is_available(service))
    => /\ ret.error_code = "OK"
       /\ Len(ret.value.results) = Len(LexicalRanking)
       /\ \A k \in 1..Len(LexicalRanking) :
              /\ ret.value.results[k].id = LexicalRanking[k].id
              /\ ret.value.results[k].match_score = LexicalRanking[k].score

\* C14 for a query with at least one term: the case in which the lexical
\* probe is well-formed.
C14_DegradesToLexicalWithTerms ==
    Split(probe.query) # <<>> => C14_DegradesToLexical

\* C14 witness: the model is unavailable, rows with embeddings similar to
\* the query exist, and lexical matches were returned.
C14_Witness ==
    /\ ret.op = "search_items"
    /\ ret.error_code = "OK"
    /\ ~is_available(service)
    /\ Len(ret.value.results) > 1
    /\ \E j \in 1..Len(probe.rows) :
           probe.rows[j].sim # <<>> /\ probe.rows[j].sim[1] >= 400

\* -------------------------------------------------- embedding properties

\* The worker threads whose function has not returned.
Alive == {t \in DOMAIN jobs : is_alive(jobs[t])}

\* C15: at most one re-embedding job runs at a time; a change_embedding_model
\* request served while a job is alive returns an error, starts no job and
\* leaves the configured model as it is.
C15_OneJobAtATime ==
    /\ [](Cardinality(Alive) <= 1)
    /\ [][\A m \in EMBEDDING_MODELS \cup {"bogus"} :
            \/ ~(/\ Alive # {}
                  /\ ret'.op = "change_embedding_model"
                  /\ change_embedding_model(m))
            \/ /\ ret'.error_code = "ERROR"
               /\ jobs' = jobs
               /\ get_current_model(sysset') = get_current_model(sysset)]_vars

\* C15 witness: two requests served one after the other, before the worker
\* of the first has run a statement; the second was refused.
C15_Witness ==
    /\ Cardinality(DOMAIN jobs) = 2
    /\ \E t \in Alive : jobs[t].pc = "started"
    /\ ret.op = "change_embedding_model"
    /\ ret.value = "Embedding regeneration already in progress"

\* The text fields of an item.
TextOf(row) == <<row.name, row.description, row.notes>>

\* C16: after update_item has changed the name, description or notes of an
\* item while the model is available, the stored embedding of the item is
\* the embedding of build_item_text of its new name, description and notes.
C16_UpdateReembeds ==
    [][\A i \in ItemIds, name \in {None, "m"}, description \in {None, "d"},
          quantity_value \in {NoQuantity, <<2>>} :
            \/ ~(/\ is_available(service)
                 /\ i \in DOMAIN items
                 /\ ret'.op = "update_item"
                 /\ update_item(i, name, None, quantity_value, description, None)
                 /\ TextOf(items'[i]) # TextOf(items[i]))
            \/ items'[i].embedding =
                   generate_embedding(service,
                       build_item_text(items'[i].name, items'[i].description,
                                       items'[i].notes))]_vars

C18_OneDimension ==
    \A i \in DOMAIN items :
        \/ items[i].embedding = NoEmbedding
        \/ Dimensions(items[i].embedding.model) = Dimensions(get_current_model(sysset))

\* The calls of the embedding service served so far.
CallsServed ==
    Count("is_available") + Count("generate_embedding")
        + Count("generate_query_embedding")

PolledStatus == get_setting(sysset, "embedding_regen_status", "idle")

\* C20: the job of every accepted request sets the status to running; a
\* status of running becomes completed or failed; and completed or failed
\* is followed by running only when the job of an accepted request has not
\* begun yet.
C20_JobsTerminate ==
    /\ \A t \in JobIds :
           (t \in DOMAIN jobs /\ jobs[t].pc = "started") ~> (PolledStatus = "running")
    /\ (PolledStatus = "running") ~> (PolledStatus \in {"completed", "failed"})
    /\ [][(PolledStatus \in {"completed", "failed"} /\ PolledStatus' = "running")
            => \E t \in DOMAIN jobs : jobs[t].pc = "started"]_vars

\* C20 witness: the second job has failed after the first was completed.
C20_Witness ==
    /\ Cardinality(DOMAIN jobs) = 2
    /\ Alive = {}
    /\ PolledStatus = "failed"
    /\ \E t \in DOMAIN jobs : jobs[t].pc = "done" /\ jobs[t].processed > 0

\* int(value) of a setting written with str(n).
ParseInt(value) == CHOOSE n \in 0..(MaxItems + 1) : ToString(n) = value

\* What a poll reads as progress and as total.
PolledProgress == ParseInt(get_setting(sysset, "embedding_regen_progress", "0"))
PolledTotal == ParseInt(get_setting(sysset, "embedding_regen_total", "0"))

SemanticPart(row) ==
    IF is_available(service) /\ row.sim # <<>> /\ row.sim[1] >= SoftThreshold
    THEN row.sim[1] * 10 * VectorWeight ELSE 0

Larger(a, b) == IF a >= b THEN a ELSE b

\* C22: an item matched by the name/description probe and by the alias
\* probe is returned once, its lexical score being the larger of its direct
\* score and its discounted alias score.
C22_StrongerSignalKept ==
    (ret.op = "search_items" /\ ret.error_code = "OK")
    => \A k \in 1..Len(ret.value.results) :
           LET result == ret.value.results[k]
               row == probe.rows[RowOf(result)]
           IN  (row.fts # <<>> /\ row.alias # <<>>)
               => /\ \A m \in 1..Len(ret.value.results) :
                         ret.value.results[m].id = result.id => m = k
                  /\ result.match_score =
                         FtsWeight * Larger(Normalized(FtsScore(row.fts[1])),
                                            Normalized(AliasScore(row.alias[1])))
                         + SemanticPart(row)

\* The match_score returned for item id.
ScoreOf(id) ==
    LET k == CHOOSE k \in 1..Len(ret.value.results) : ret.value.results[k].id = id
    IN  ret.value.results[k].match_score

\* C23: the normalized lexical score of any rank lies in [0, 1], and of two
\* ranks the better one (the lower) gets a normalized score at least as
\* high, zero ranks included. Without similarity the match_score is the
\* normalized score times the weight 0.5.
C23_NormalizedMonotonic ==
    (/\ ret.op = "search_items"
     /\ probe.rows[1].fts # <<>>
     /\ probe.rows[2].fts # <<>>)
    => /\ \A id \in {"i1", "i2"} :
              ScoreOf(id) >= 0 /\ ScoreOf(id) <= FtsWeight * 10000
       /\ probe.rows[1].fts[1] <= probe.rows[2].fts[1]
              => ScoreOf("i1") >= ScoreOf("i2")

\* The normalized lexical score of a matched row, in 1/10000: a tenth of the
\* absolute rank (1.0 for a rank of 0), times 0.9 for a match through an
\* alias only, at most 1.
NormalizedLexical(row) ==
    LET magnitude == IF row.fts # <<>> THEN row.fts[1] ELSE row.alias[1]
        raw == IF magnitude = 0 THEN 100 ELSE IF magnitude < 0 THEN -magnitude
               ELSE magnitude
        score == IF row.fts # <<>> THEN 10 * raw ELSE 9 * raw
    IN  IF score > 10000 THEN 10000 ELSE score

C25_AliasDiscount ==
    (/\ ret.op = "search_items"
     /\ probe.rows[1].fts # <<>>
     /\ probe.rows[2].alias # <<>>
     /\ probe.rows[2].alias[1] = probe.rows[1].fts[1])
    => 10 * ScoreOf("i2") = 9 * ScoreOf("i1")


\* C26: two update_bin calls of different server processes on different bins,
\* each past its circular-reference check before the other's UPDATE is
\* committed, leave no cycle of parent links once both have returned.
C26_ConcurrentMovesAcyclic ==
    (pending = EmptyTable /\ ret.op = "update_bin") => Acyclic(bins)

\* Two processes hold verified moves of different bins at once.
C26_Witness ==
    \E p \in DOMAIN pending, q \in DOMAIN pending :
        pending[p].bin_id # pending[q].bin_id

\* C27: after any sequence of create_bin and update_bin calls, every bin that
\* has a parent is in the location of its parent, the children of a bin whose
\* location update_bin changed included.
C27_ChildInParentLocation ==
    \A b \in DOMAIN bins :
        bins[b].parent_bin_id \in DOMAIN bins
            => bins[b].location_id = bins[bins[b].parent_bin_id].location_id

\* update_bin has just moved a bin that has a child to another location.
C27_Witness ==
    /\ ret.op = "update_bin"
    /\ ret.error_code = "OK"
    /\ \E b \in DOMAIN bins, c \in DOMAIN bins :
           /\ bins[c].parent_bin_id = b
           /\ bins[b].location_id = "L2"

\* C28: when a job that embedded every item it listed finishes with status
\* completed, the stored embedding of every item is the new model's
\* embedding of the item's current name, description and notes, also for an
\* item update_item changed during the job.
C28_CompletedMeansCurrent ==
    [][\A t \in JobIds :
          \/ ~(/\ t \in DOMAIN jobs
               /\ jobs[t].pc = "finish"
               /\ jobs[t].failed = 0
               /\ regen_finish(t))
          \/ \A i \in DOMAIN items' :
                 items'[i].embedding =
                     Encode(jobs[t].model_name,
                            build_item_text(items'[i].name, items'[i].description,
                                            items'[i].notes))]_vars

\* A job has ended completed without a failure, and an item it listed had
\* another text when the job read it.
C28_Witness ==
    /\ sysset.embedding_regen_status = "completed"
    /\ \E t \in DOMAIN jobs :
           /\ jobs[t].pc = "done"
           /\ jobs[t].failed = 0
           /\ \E k \in 1..Len(jobs[t].rows) :
                  /\ jobs[t].rows[k].id \in DOMAIN items
                  /\ TextOf(items[jobs[t].rows[k].id]) # TextOf(jobs[t].rows[k])

\* C29: when embeddings are enabled and sentence-transformers is installed,
\* is_available does not return False and generate_query_embedding does not
\* return None to a request, also while the worker is loading the model or
\* resetting the cached handle.
C29_NeverSeenUnavailable ==
    (service.embedding_enabled /\ service.installed) =>
        /\ ret.op = "is_available" => ret.value = "True"
        /\ ret.op = "generate_query_embedding" => ret.value # NoEmbedding

\* A request has asked is_available between two statements of the worker
\* that reset or load the model.
C29_Witness ==
    /\ service.embedding_enabled
    /\ service.installed
    /\ ret.op = "is_available"
    /\ \E t \in DOMAIN jobs : jobs[t].pc \in {"reset_flag", "loading"}

\* C30: in every reachable state the status a poll reads is running exactly
\* when the thread of a job is alive: not idle or the completed of an earlier
\* job once a request was accepted, not running when no thread is alive.
C30_StatusAgreesWithJob == (PolledStatus = "running") <=> (Alive # {})

\* A poll served while the thread of the second job is alive.
C30_Witness ==
    /\ ret.op = "get_regen_status"
    /\ Cardinality(DOMAIN jobs) = 2
    /\ Alive # {}

====
